---- MODULE Spec2Model ----
(***************************************************************************)
(* Model of src/main.py: the SSHConnectionManager command line tool.       *)
(*                                                                         *)
(* One run of the program is: parse the command, construct the manager     *)
(* (which loads the config file), dispatch to help / list / refresh, exit. *)
(* The config file is the only state that survives from one run to the     *)
(* next.  Python strings are modelled as sequences of one-character        *)
(* strings, so that the f-string key "{project}@{type}", str.lower() and   *)
(* int() are computed and not assumed.  JSON values are tagged records.    *)
(***************************************************************************)
EXTENDS Integers, Sequences, FiniteSets, TLC

\* Most result records in one multi-record API response.
MaxRecords == 2
\* Longest line typed at the index prompt.
MaxInputLen == 2

(***************************************************************************)
(* Python strings and JSON values                                          *)
(***************************************************************************)
\* ''
EmptyStr == <<>>

\* str.lower() on one character of the model's alphabet.
LowerChar(c) == IF c = "S" THEN "s" ELSE c

\* str.lower(), line 74.
Lower(s) == [i \in 1..Len(s) |-> LowerChar(s[i])]

\* JSON values: null, string, array, object.  An object is a function from
\* its keys to JSON values.
JNull == [t |-> "null"]
JStr(s) == [t |-> "str", s |-> s]
JList(l) == [t |-> "list", l |-> l]
JObj(o) == [t |-> "obj", o |-> o]
EmptyObj == JObj([k \in {} |-> JNull])
EmptyList == JList(<<>>)

\* Python truth value of a JSON value: None, '', [] and {} are false.
Truthy(v) ==
    CASE v.t = "null" -> FALSE
      [] v.t = "str" -> Len(v.s) > 0
      [] v.t = "list" -> Len(v.l) > 0
      [] v.t = "obj" -> DOMAIN v.o # {}

\* dict.get(key, default) on a JSON object.
DictGet(obj, key, default) ==
    IF key \in DOMAIN obj.o THEN obj.o[key] ELSE default

\* The outcome of an expression: a value, or an exception raised.
Ok(v) == [raise |-> "none", val |-> v]
Raise(e) == [raise |-> e, val |-> EmptyStr]

\* X.get(outer, {}).get(inner, []) followed by
\* p[0].get('text', {}).get('content', '') if p else ''      (lines 67-71, 76-77)
\* Calling .get on null raises AttributeError; [0] on an empty list would
\* raise IndexError.
ExtractTextUnguarded(properties, outer, inner) ==
    LET a == DictGet(properties, outer, EmptyObj)
    IN  IF a.t # "obj" THEN Raise("AttributeError")
        ELSE LET p == DictGet(a, inner, EmptyList)
             IN  IF p.t # "list" \/ Len(p.l) = 0 THEN Raise("IndexError")
                 ELSE LET e == p.l[1]
                      IN  IF e.t # "obj" THEN Raise("AttributeError")
                          ELSE LET x == DictGet(e, "text", EmptyObj)
                               IN  IF x.t # "obj" THEN Raise("AttributeError")
                                   ELSE Ok(DictGet(x, "content", JStr(EmptyStr)).s)
ExtractText(properties, outer, inner) ==
    LET a == DictGet(properties, outer, EmptyObj)
    IN  IF a.t # "obj" THEN Raise("AttributeError")
        ELSE LET p == DictGet(a, inner, EmptyList)
             IN  IF ~Truthy(p) THEN Ok(EmptyStr)
                 ELSE LET e == p.l[1]
                      IN  IF e.t # "obj" THEN Raise("AttributeError")
                          ELSE LET x == DictGet(e, "text", EmptyObj)
                               IN  IF x.t # "obj" THEN Raise("AttributeError")
                                   ELSE Ok(DictGet(x, "content", JStr(EmptyStr)).s)

\* properties.get('Type', {}).get('select', {}) followed by
\* t.get('name', '').lower() if t else ''                     (lines 73-74)
ExtractType(properties) ==
    LET a == DictGet(properties, "Type", EmptyObj)
    IN  IF a.t # "obj" THEN Raise("AttributeError")
        ELSE LET sel == DictGet(a, "select", EmptyObj)
             IN  IF ~Truthy(sel) THEN Ok(EmptyStr)
                 ELSE LET n == DictGet(sel, "name", JStr(EmptyStr))
                      IN  IF n.t # "str" THEN Raise("AttributeError")
                          ELSE Ok(Lower(n.s))

\* f"{project}@{type_}", line 80.
KeyOf(project, type) == project \o <<"@">> \o type

(***************************************************************************)
(* The Connection Set: a Python dict, kept in insertion order.             *)
(***************************************************************************)
EmptyDict == <<>>

HasKey(d, k) == \E i \in 1..Len(d) : d[i].key = k

\* d[k] = v: an existing key keeps its position and takes the new value, a
\* new key is appended (line 83).
DictSetKeepFirst(d, k, v) ==
    IF HasKey(d, k) THEN d ELSE Append(d, [key |-> k, value |-> v])
DictSet(d, k, v) ==
    IF HasKey(d, k)
    THEN [i \in 1..Len(d) |-> IF d[i].key = k THEN [key |-> k, value |-> v] ELSE d[i]]
    ELSE Append(d, [key |-> k, value |-> v])

\* One iteration of the loop over results, lines 64-88: the page's entry, or
\* the exception its extraction raises.
PageEntry(page) ==
    LET properties == DictGet(page, "properties", EmptyObj)
        project == ExtractText(properties, "Project", "title")
        ssh == ExtractText(properties, "SSH", "rich_text")
        type == ExtractType(properties)
        password == ExtractText(properties, "password", "rich_text")
    IN  IF properties.t # "obj" THEN Raise("AttributeError")
        ELSE IF project.raise # "none" THEN Raise(project.raise)
        ELSE IF ssh.raise # "none" THEN Raise(ssh.raise)
        ELSE IF type.raise # "none" THEN Raise(type.raise)
        ELSE IF password.raise # "none" THEN Raise(password.raise)
        ELSE Ok([key |-> KeyOf(project.val, type.val),
                 value |-> [type |-> type.val,
                            project |-> project.val,
                            ssh_command |-> ssh.val,
                            password |-> password.val]])

\* The loop of lines 62-88 from a given dict: the dict built, or the first
\* exception raised.
RECURSIVE BuildFrom(_, _)
BuildFrom(d, results) ==
    IF results = <<>> THEN [raise |-> "none", dict |-> d]
    ELSE LET e == PageEntry(Head(results))
         IN  IF e.raise # "none" THEN [raise |-> e.raise, dict |-> d]
             ELSE BuildFrom(DictSet(d, e.val.key, e.val.value), Tail(results))

(***************************************************************************)
(* The config file                                                         *)
(***************************************************************************)
\* The file is absent, holds text that is not JSON, or holds a JSON object
\* given by its members in file order.
AbsentFile == [kind |-> "absent", members |-> <<>>]
MalformedFile == [kind |-> "malformed", members |-> <<>>]
JsonFile(members) == [kind |-> "json", members |-> members]

\* json.dump(connections, file, indent=4), line 93: one member per entry, in
\* dict order.
JsonDump(d) == [i \in 1..Len(d) |-> <<d[i].key, d[i].value>>]

\* json.load(file), line 28: members are inserted in file order.
RECURSIVE LoadMembers(_, _)
LoadMembers(d, members) ==
    IF members = <<>> THEN d
    ELSE LoadMembers(DictSet(d, Head(members)[1], Head(members)[2]), Tail(members))
JsonLoad(members) == LoadMembers(EmptyDict, members)

\* load_config, lines 24-30: the connections loaded, or the exception of
\* json.load on a file that is not JSON.
LoadConfig(f) ==
    CASE f.kind = "absent" -> [raise |-> "none", dict |-> EmptyDict]
      [] f.kind = "json" -> [raise |-> "none", dict |-> JsonLoad(f.members)]
      [] f.kind = "malformed" -> [raise |-> "JSONDecodeError", dict |-> EmptyDict]

\* Lines 90-99.  open(..., 'w') may fail and leave the file as it was; when it
\* succeeds the file is truncated, and a failure of the dump or of the close
\* leaves incomplete JSON text behind.
WriteOutcomes == {"ok", "open_fails", "dump_fails"}
FileAfterWrite(outcome, old, new) ==
    CASE outcome = "ok" -> JsonFile(JsonDump(new))
      [] outcome = "open_fails" -> old
      [] outcome = "dump_fails" -> MalformedFile

\* self.connections = connections is line 94, after the dump, inside the try.
ConnectionsAssignedFirst(outcome, old, new) == new
ConnectionsAfterWrite(outcome, old, new) ==
    IF outcome = "ok" THEN new ELSE old

(***************************************************************************)
(* The selection prompt                                                    *)
(***************************************************************************)
DigitVal == ("0" :> 0) @@ ("1" :> 1) @@ ("2" :> 2) @@ ("3" :> 3) @@ ("4" :> 4)
            @@ ("5" :> 5) @@ ("6" :> 6) @@ ("7" :> 7) @@ ("8" :> 8) @@ ("9" :> 9)

RECURSIVE LStrip(_)
LStrip(s) == IF s # <<>> /\ Head(s) = " " THEN LStrip(Tail(s)) ELSE s
RECURSIVE RStrip(_)
RStrip(s) ==
    IF s # <<>> /\ s[Len(s)] = " " THEN RStrip(SubSeq(s, 1, Len(s) - 1)) ELSE s

RECURSIVE DigitsValue(_)
DigitsValue(s) ==
    IF s = <<>> THEN 0
    ELSE 10 * DigitsValue(SubSeq(s, 1, Len(s) - 1)) + DigitVal[s[Len(s)]]

\* int(text), line 121: surrounding blanks are stripped, one sign is allowed,
\* and what is left must be a non-empty run of digits.  Anything else raises
\* ValueError.  (Underscores are outside the alphabet of the inputs.)
IntOf(text) ==
    LET t == RStrip(LStrip(text))
        signed == t # <<>> /\ Head(t) \in {"-", "+"}
        digits == IF signed THEN Tail(t) ELSE t
    IN  IF digits = <<>> \/ \E i \in 1..Len(digits) : digits[i] \notin DOMAIN DigitVal
        THEN [raise |-> "ValueError", val |-> 0]
        ELSE [raise |-> "none",
              val |-> IF signed /\ Head(t) = "-" THEN 0 - DigitsValue(digits)
                      ELSE DigitsValue(digits)]

\* seq[i] for a Python list of length n: a negative i counts from the end.
\* The 1-based position read, or IndexError.
PyIndex(n, i) ==
    LET j == IF i < 0 THEN i + n ELSE i
    IN  IF j < 0 \/ j >= n THEN [raise |-> "IndexError", pos |-> 0]
        ELSE [raise |-> "none", pos |-> j + 1]

\* list(self.connections.values())[index - 1], line 122.
SelectAtIndex(n, index) == PyIndex(n, index)
Select(n, index) == PyIndex(n, index - 1)

\* The except clauses of lines 129-132.
HandlerWithoutInterrupt(e) ==
    IF e \in {"IndexError", "ValueError"} THEN "invalid" ELSE "uncaught"
Handler(e) ==
    CASE e \in {"IndexError", "ValueError"} -> "invalid"
      [] e = "KeyboardInterrupt" -> "canceled"
      [] OTHER -> "uncaught"

\* if self.connections:, line 102.
AlwaysListed(d) == TRUE
NonEmpty(d) == Len(d) > 0

\* The rows of the table, lines 104-111.
TableRows(d) ==
    [i \in 1..Len(d) |-> [no |-> i,
                          project |-> d[i].value.project,
                          type |-> d[i].value.type,
                          ssh_command |-> d[i].value.ssh_command,
                          password |-> d[i].value.password]]

(***************************************************************************)
(* Inputs: API responses, typed lines, commands                            *)
(***************************************************************************)
SeqsUpTo(S, n) == UNION {[1..k -> S] : k \in 0..n}

\* A property whose key the page does not hold.
Absent == [t |-> "absent"]

\* {inner: [{"text": {"content": c}}]}
TextProp(inner, c) ==
    JObj([k \in {inner} |-> JList(<<JObj([text |-> JObj([content |-> JStr(c)])])>>)])
\* {"select": {"name": n}}
SelectProp(n) == JObj([select |-> JObj([name |-> JStr(n)])])

\* The missing and empty forms of a title / rich_text property: no key, null,
\* an empty sequence, a sequence holding an empty element.
TextShapes(inner) ==
    {Absent, JNull, JObj([k \in {inner} |-> EmptyList]),
     JObj([k \in {inner} |-> JList(<<EmptyObj>>)])}
\* The missing and empty forms of a select property: no key, null, a null
\* select, an empty select.
SelectShapes == {Absent, JNull, JObj([select |-> JNull]), JObj([select |-> EmptyObj])}

\* A page of the results array: {"properties": {...}} with the keys present.
MakePage(p, s, t, w) ==
    LET all == [Project |-> p, SSH |-> s, Type |-> t, password |-> w]
        present == {k \in DOMAIN all : all[k].t # "absent"}
    IN  JObj([properties |-> JObj([k \in present |-> all[k]])])

\* Complete records, each with one of two commands.  Type names "S" and "s"
\* lower-case to one type; project "a@" with type "s" and project "a" with
\* type "@s" format to one key.
ProjectTypes ==
    {<<(<<"a">>), (<<"S">>)>>, <<(<<"a">>), (<<"s">>)>>,
     <<(<<"a", "@">>), (<<"s">>)>>, <<(<<"a">>), (<<"@", "s">>)>>}
RecordPages ==
    {MakePage(TextProp("title", pt[1]), TextProp("rich_text", s), SelectProp(pt[2]),
              TextProp("rich_text", <<"p">>)) :
        pt \in ProjectTypes, s \in {<<"x">>, <<"y">>}}

\* Records with every combination of present, missing and empty properties.
ShapePages ==
    {MakePage(p, s, t, w) :
        p \in TextShapes("title") \cup {TextProp("title", <<"a">>)},
        s \in TextShapes("rich_text") \cup {TextProp("rich_text", <<"x">>)},
        t \in SelectShapes \cup {SelectProp(<<"S">>)},
        w \in TextShapes("rich_text") \cup {TextProp("rich_text", <<"p">>)}}

\* The results arrays: up to MaxRecords complete records, or one record of
\* any shape.
ResultArrays == SeqsUpTo(RecordPages, MaxRecords) \cup {<<p>> : p \in ShapePages}

\* A response body: text that is not JSON, or a JSON object with or without a
\* results array.
NotJson == [json |-> FALSE, value |-> JNull]
JsonBody(v) == [json |-> TRUE, value |-> v]
ErrorBodies == {NotJson, JsonBody(EmptyObj)}
Bodies == ErrorBodies \cup {JsonBody(JObj([results |-> JList(r)])) : r \in ResultArrays}

\* What requests.post comes back with: an exception of the transport, or a
\* response with a status and a body.
NoReply == [kind |-> "none", status |-> 0, body |-> NotJson]
Replies ==
    {[kind |-> k, status |-> 0, body |-> NotJson] : k \in {"ConnectionError", "Timeout"}}
    \cup {[kind |-> "response", status |-> 500, body |-> b] : b \in ErrorBodies}
    \cup {[kind |-> "response", status |-> 200, body |-> b] : b \in Bodies}

\* Lines 50-52: requests.post raises on a transport failure and
\* raise_for_status raises HTTPError on a 4xx or 5xx status; both are
\* RequestException.
RaisesOnTransportOnly(r) == r.kind # "response"
RaisesRequestException(r) == r.kind # "response" \/ r.status >= 400

\* What a read of standard input brings: a line, Ctrl+C or end of input.
Alphabet == {"0", "1", "2", "3", "4", "-", " ", "x"}
Line(text) == [kind |-> "line", text |-> text]
Interrupt == [kind |-> "KeyboardInterrupt", text |-> <<>>]
EndOfInput == [kind |-> "EOFError", text |-> <<>>]
NoInput == [kind |-> "none", text |-> <<>>]
IndexReads == {Line(t) : t \in SeqsUpTo(Alphabet, MaxInputLen)} \cup {Interrupt, EndOfInput}
ConfirmReads == {Line(t) : t \in SeqsUpTo({"y", " "}, 1)} \cup {Interrupt, EndOfInput}

\* argparse, line 138: the command is absent or one of the three choices;
\* anything else ends the process in parse_args.
Choices == {"list", "refresh", "help"}
Commands == Choices \cup {"None", "connect"}

\* Line 144.
IsHelpOnly(c) == c = "help"
IsHelp(c) == c = "None" \/ c = "help"

\* What the program prints.
UsageText ==
    <<"Available commands:",
      "  list      - Show list & connect to your ssh",
      "  refresh   - Refresh data from database",
      "  help      - Show this help message",
      "">>
FetchError == "Error: Failed to fetch data from Notion."
DecodeError == "Error: Failed to decode JSON response from Notion."
Updated == "Data updated successfully!"
WriteError == "Error: Failed to write to the configuration file."
Executing == "Command executing..."
Canceled == "Command execution canceled."
InvalidIndex == "Invalid index. Please enter a valid number."
OperationCanceled == "\nOperation canceled...\n"
NoConnections == "No SSH connections available."

NoConnection ==
    [type |-> EmptyStr, project |-> EmptyStr, ssh_command |-> EmptyStr, password |-> EmptyStr]

(***************************************************************************)
(* State                                                                   *)
(***************************************************************************)
VARIABLES
    file,          \* the config file on disk
    pc,            \* where the process is: "shell" when none runs
    command,       \* args.command
    connections,   \* self.connections
    reply,         \* what requests.post came back with
    results,       \* refresh: the results array
    built,         \* refresh: the local dict connections
    output,        \* the lines printed, in order
    table,         \* list: the rows rendered
    prompts,       \* list: the prompts shown, in order
    indexRead,     \* list: what the index prompt read
    connection,    \* list: the record selected
    confirmRead,   \* list: what the confirmation prompt read
    executed,      \* the commands handed to os.system, in order
    requests,      \* HTTP requests sent by this process
    writes         \* times this process opened the config file for writing

vars == <<file, pc, command, connections, reply, results, built, output, table,
          prompts, indexRead, connection, confirmRead, executed, requests, writes>>

procVars == <<reply, results, built, output, table, prompts, indexRead, connection,
              confirmRead, executed, requests, writes>>

\* connections = {} followed by the loop, lines 62-88.  (An update of
\* self.connections in place would start from the loaded set.)
BuildIncremental(rs) == BuildFrom(connections, rs)
Build(rs) == BuildFrom(EmptyDict, rs)

\* A fresh process: nothing fetched, printed, read or run yet.
Fresh ==
    /\ reply = NoReply
    /\ results = <<>>
    /\ built = EmptyDict
    /\ output = <<>>
    /\ table = <<>>
    /\ prompts = <<>>
    /\ indexRead = NoInput
    /\ connection = NoConnection
    /\ confirmRead = NoInput
    /\ executed = <<>>
    /\ requests = 0
    /\ writes = 0

\* No process runs.  The config file does not exist yet, was left by hand as
\* text that is not JSON, or holds an empty object.
Init ==
    /\ file \in {AbsentFile, MalformedFile, JsonFile(<<>>)}
    /\ pc = "shell"
    /\ command = "None"
    /\ connections = EmptyDict
    /\ Fresh

Ended == pc \in {"shell", "done", "crashed", "usage_error"}

\* The program is started with a command: main, lines 137-140.
Start ==
    /\ Ended
    /\ \E c \in Commands :
        /\ command' = c
        /\ pc' = IF c \in Choices \cup {"None"} THEN "construct" ELSE "usage_error"
    /\ connections' = EmptyDict
    /\ reply' = NoReply
    /\ results' = <<>>
    /\ built' = EmptyDict
    /\ output' = <<>>
    /\ table' = <<>>
    /\ prompts' = <<>>
    /\ indexRead' = NoInput
    /\ connection' = NoConnection
    /\ confirmRead' = NoInput
    /\ executed' = <<>>
    /\ requests' = 0
    /\ writes' = 0
    /\ UNCHANGED file

\* manager = SSHConnectionManager(), lines 142 and 18-30.
Construct ==
    /\ pc = "construct"
    /\ LET l == LoadConfig(file)
       IN  /\ connections' = l.dict
           /\ pc' = IF l.raise = "none" THEN "dispatch" ELSE "crashed"
    /\ UNCHANGED <<file, command, procVars>>

\* Lines 144-153.
Dispatch ==
    /\ pc = "dispatch"
    /\ IF IsHelp(command)
       THEN output' = UsageText /\ pc' = "done"
       ELSE /\ output' = output
            /\ pc' = CASE command = "list" -> "list"
                       [] command = "refresh" -> "refresh"
                       [] OTHER -> "done"
    /\ UNCHANGED <<file, command, connections, reply, results, built, table, prompts,
                   indexRead, connection, confirmRead, executed, requests, writes>>

\* refresh, lines 48-60: the request, then the decoding of the body.
Fetch ==
    /\ pc = "refresh"
    /\ \E r \in Replies :
        /\ reply' = r
        /\ IF RaisesRequestException(r)
           THEN output' = Append(output, FetchError) /\ pc' = "done" /\ results' = results
           ELSE IF ~r.body.json
           THEN output' = Append(output, DecodeError) /\ pc' = "done" /\ results' = results
           ELSE /\ output' = output
                /\ results' = DictGet(r.body.value, "results", EmptyList).l
                /\ pc' = "build"
    /\ requests' = requests + 1
    /\ UNCHANGED <<file, command, connections, built, table, prompts, indexRead,
                   connection, confirmRead, executed, writes>>

\* refresh, lines 62-88: the loop.  An exception raised in it is not caught.
BuildConnections ==
    /\ pc = "build"
    /\ LET b == Build(results)
       IN  /\ built' = b.dict
           /\ pc' = IF b.raise = "none" THEN "write" ELSE "crashed"
    /\ UNCHANGED <<file, command, connections, reply, results, output, table, prompts,
                   indexRead, connection, confirmRead, executed, requests, writes>>

\* refresh, lines 90-99.
WriteConfig ==
    /\ pc = "write"
    /\ \E o \in WriteOutcomes :
        /\ file' = FileAfterWrite(o, file, built)
        /\ connections' = ConnectionsAfterWrite(o, connections, built)
        /\ output' = Append(output, IF o = "ok" THEN Updated ELSE WriteError)
    /\ writes' = writes + 1
    /\ pc' = "done"
    /\ UNCHANGED <<command, reply, results, built, table, prompts, indexRead,
                   connection, confirmRead, executed, requests>>

\* list_connections, lines 102-117 and 133-134.
ListConnections ==
    /\ pc = "list"
    /\ IF NonEmpty(connections)
       THEN table' = TableRows(connections) /\ output' = output /\ pc' = "index_prompt"
       ELSE table' = table /\ output' = Append(output, NoConnections) /\ pc' = "done"
    /\ UNCHANGED <<file, command, connections, reply, results, built, prompts,
                   indexRead, connection, confirmRead, executed, requests, writes>>

\* What the except clauses make of an exception raised in the try of line 120.
Handle(e) ==
    CASE Handler(e) = "invalid" -> output' = Append(output, InvalidIndex) /\ pc' = "done"
      [] Handler(e) = "canceled" -> output' = Append(output, OperationCanceled) /\ pc' = "done"
      [] OTHER -> output' = output /\ pc' = "crashed"

\* Lines 121-122: the index prompt, int() and the selection.
IndexPrompt ==
    /\ pc = "index_prompt"
    /\ prompts' = Append(prompts, "index")
    /\ \E r \in IndexReads :
        /\ indexRead' = r
        /\ IF r.kind # "line"
           THEN Handle(r.kind) /\ connection' = connection
           ELSE LET n == IntOf(r.text)
                    s == Select(Len(connections), n.val)
                IN  IF n.raise # "none" THEN Handle(n.raise) /\ connection' = connection
                    ELSE IF s.raise # "none" THEN Handle(s.raise) /\ connection' = connection
                    ELSE /\ connection' = connections[s.pos].value
                         /\ output' = output
                         /\ pc' = "confirm_prompt"
    /\ UNCHANGED <<file, command, connections, reply, results, built, table,
                   confirmRead, executed, requests, writes>>

\* Lines 123-128: the confirmation prompt and os.system.
ConfirmPrompt ==
    /\ pc = "confirm_prompt"
    /\ prompts' = Append(prompts, "confirm")
    /\ \E r \in ConfirmReads :
        /\ confirmRead' = r
        /\ IF r.kind # "line"
           THEN Handle(r.kind) /\ executed' = executed
           ELSE IF r.text = EmptyStr
           THEN /\ output' = Append(output, Executing)
                /\ executed' = Append(executed, connection.ssh_command)
                /\ pc' = "done"
           ELSE /\ output' = Append(output, Canceled)
                /\ executed' = executed
                /\ pc' = "done"
    /\ UNCHANGED <<file, command, connections, reply, results, built, table,
                   indexRead, connection, requests, writes>>

Next ==
    \/ Start
    \/ Construct
    \/ Dispatch
    \/ Fetch
    \/ BuildConnections
    \/ WriteConfig
    \/ ListConnections
    \/ IndexPrompt
    \/ ConfirmPrompt

Spec == Init /\ [][Next]_vars

(***************************************************************************)
(* Properties                                                              *)
(***************************************************************************)
\* The refresh of this process got no usable response.
FetchFailed(r) ==
    \/ r.kind \in {"ConnectionError", "Timeout"}
    \/ r.kind = "response" /\ r.status \notin 200..299
    \/ r.kind = "response" /\ ~r.body.json

\* The refresh of this process ran to "Data updated successfully!".
Refreshed == command = "refresh" /\ pc = "done" /\ output = <<Updated>>

\* The key and the value the j-th result record is stored under.
KeyAt(j) == PageEntry(results[j]).val.key
ValueAt(j) == PageEntry(results[j]).val.value

\* The number typed at the index prompt, when it is one.
TypedNumber == IntOf(indexRead.text)

\* C1: in list_connections on a non-empty Connection Set of size n, an index
\* line that is not a number, or is a number outside [1, n] (0, n+1, negative),
\* is rejected: the invalid-index error is printed, the confirmation prompt is
\* not shown, nothing is executed, and memory and file are as loaded.
C1_InvalidIndexRejected ==
    (/\ command = "list"
     /\ indexRead.kind = "line"
     /\ NonEmpty(connections)
     /\ TypedNumber.raise # "none" \/ TypedNumber.val \notin 1..Len(connections))
    => /\ pc = "done"
       /\ output = <<InvalidIndex>>
       /\ prompts = <<"index">>
       /\ executed = <<>>
       /\ writes = 0
       /\ connections = LoadConfig(file).dict

C4_RefreshReplacesAndMirrors ==
    Refreshed =>
        LET n == Len(results)
        IN  /\ connections = built
            /\ \A i \in 1..Len(connections) :
                 \E j \in 1..n : KeyAt(j) = connections[i].key
            /\ \A j \in 1..n : HasKey(connections, KeyAt(j))
            /\ \A i1, i2 \in 1..Len(connections) :
                 connections[i1].key = connections[i2].key => i1 = i2
            /\ Len(connections) <= n
            /\ Len(connections) < n <=>
                 \E j1, j2 \in 1..n : j1 < j2 /\ KeyAt(j1) = KeyAt(j2)
            /\ file.kind = "json"
            /\ Len(file.members) = Len(connections)
            /\ \A i \in 1..Len(connections) :
                 file.members[i] = <<connections[i].key, connections[i].value>>
            /\ JsonLoad(file.members) = connections

C4_Witness ==
    /\ Refreshed
    /\ Len(results) >= 2
    /\ Len(connections) < Len(results)
    /\ file.members # <<>>

\* C5: when two or more records of a response have the same key (type
\* lower-cased), the set has exactly one entry under that key, holding the
\* type, project, ssh_command and password of the last such record.
C5_LastDuplicateWins ==
    Refreshed =>
        \A j1, j2 \in 1..Len(results) :
            (j1 < j2 /\ KeyAt(j1) = KeyAt(j2)) =>
                LET k == KeyAt(j1)
                    last == CHOOSE j \in 1..Len(results) :
                              /\ KeyAt(j) = k
                              /\ \A m \in 1..Len(results) : KeyAt(m) = k => m <= j
                IN  /\ Cardinality({i \in 1..Len(connections) : connections[i].key = k}) = 1
                    /\ \A i \in 1..Len(connections) :
                         connections[i].key = k => connections[i].value = ValueAt(last)

C5_Witness ==
    /\ Refreshed
    /\ Len(results) = 2
    /\ KeyAt(1) = KeyAt(2)
    /\ DictGet(results[1], "properties", EmptyObj).o["Type"]
         # DictGet(results[2], "properties", EmptyObj).o["Type"]
    /\ ValueAt(1).ssh_command # ValueAt(2).ssh_command
    /\ Len(connections) = 1
    /\ connections[1].value.ssh_command = ValueAt(2).ssh_command

\* A title / rich_text property that is missing or empty: no key, an empty
\* object, an empty sequence, a sequence whose first element is empty.
MissingText(page, outer, inner) ==
    LET ps == page.o["properties"].o
    IN  \/ outer \notin DOMAIN ps
        \/ /\ ps[outer].t = "obj"
           /\ \/ inner \notin DOMAIN ps[outer].o
              \/ /\ ps[outer].o[inner].t = "list"
                 /\ \/ ps[outer].o[inner].l = <<>>
                    \/ /\ ps[outer].o[inner].l[1].t = "obj"
                       /\ DOMAIN ps[outer].o[inner].l[1].o = {}

\* A select property that is missing or empty: no key, a null select, an
\* empty select.
MissingSelect(page) ==
    LET ps == page.o["properties"].o
    IN  \/ "Type" \notin DOMAIN ps
        \/ /\ ps["Type"].t = "obj"
           /\ \/ "select" \notin DOMAIN ps["Type"].o
              \/ ps["Type"].o["select"].t = "null"
              \/ /\ ps["Type"].o["select"].t = "obj"
                 /\ DOMAIN ps["Type"].o["select"].o = {}

\* No property of the page is null itself.
NoNullProperty(page) ==
    \A k \in DOMAIN page.o["properties"].o : page.o["properties"].o[k].t # "null"

C7_ConfirmRunsSelected ==
    (/\ command = "list"
     /\ indexRead.kind = "line"
     /\ TypedNumber.raise = "none"
     /\ TypedNumber.val \in 1..Len(connections))
    => LET i == TypedNumber.val
       IN  /\ pc \in {"confirm_prompt", "done", "crashed"}
           /\ connection = connections[i].value
           /\ table[i].no = i
           /\ table[i].ssh_command = connections[i].value.ssh_command
           /\ pc = "confirm_prompt" => executed = <<>>
           /\ confirmRead.kind = "line" =>
                /\ pc = "done"
                /\ IF confirmRead.text = EmptyStr
                   THEN /\ executed = <<connections[i].value.ssh_command>>
                        /\ output = <<Executing>>
                   ELSE /\ executed = <<>>
                        /\ output = <<Canceled>>

C7_Witness ==
    /\ pc = "done"
    /\ Len(connections) >= 2
    /\ connections[1].value.ssh_command # connections[2].value.ssh_command
    /\ TypedNumber.raise = "none" /\ TypedNumber.val = 2
    /\ confirmRead = Line(EmptyStr)
    /\ executed = <<connections[2].value.ssh_command>>

\* C8: Ctrl+C at the index prompt or at the confirmation prompt is caught:
\* the cancellation is printed, list_connections returns normally, nothing is
\* executed, and no step at either prompt changes the Connection Set or the
\* config file.
C8_InterruptIsCancellation ==
    /\ []((indexRead = Interrupt \/ confirmRead = Interrupt) =>
            /\ pc = "done"
            /\ output = <<OperationCanceled>>
            /\ executed = <<>>
            /\ writes = 0)
    /\ [][(pc \in {"index_prompt", "confirm_prompt"}) =>
            (file' = file /\ connections' = connections)]_vars

C8_Witness ==
    /\ pc = "done"
    /\ indexRead.kind = "line"
    /\ confirmRead = Interrupt
    /\ prompts = <<"index", "confirm">>
    /\ output = <<OperationCanceled>>

\* C9: with an empty Connection Set (no config file, or a file holding {}),
\* list prints "No SSH connections available." and returns: no table, no
\* prompt, nothing executed.
C9_EmptySetNoPrompt ==
    (/\ command = "list"
     /\ pc \notin {"shell", "construct", "dispatch", "list"}
     /\ file \in {AbsentFile, JsonFile(<<>>)})
    => /\ connections = EmptyDict
       /\ pc = "done"
       /\ output = <<NoConnections>>
       /\ table = <<>>
       /\ prompts = <<>>
       /\ indexRead = NoInput /\ confirmRead = NoInput
       /\ executed = <<>>

C9_Witness ==
    /\ command = "list"
    /\ pc = "done"
    /\ file = JsonFile(<<>>)
    /\ output = <<NoConnections>>

\* C10 as stated: with no command or with help, the process prints the usage
\* and exits successfully whatever the config file is, with no request, no
\* write and nothing executed.
C10_HelpForEveryConfig ==
    (command \in {"None", "help"} /\ pc \in {"done", "crashed"})
    => /\ pc = "done"
       /\ output = UsageText
       /\ requests = 0 /\ writes = 0 /\ executed = <<>>

\* C10 as the code has it: the same when the config file is absent or holds
\* valid JSON; when it holds text that is not JSON, the load at startup raises
\* and the process ends before the usage is printed.  In both cases there is
\* no request, no write and nothing executed.
C10_HelpUnlessMalformedConfig ==
    (command \in {"None", "help"} /\ pc \in {"done", "crashed"})
    => /\ IF file.kind = "malformed"
          THEN pc = "crashed" /\ output = <<>>
          ELSE pc = "done" /\ output = UsageText
       /\ requests = 0 /\ writes = 0 /\ executed = <<>>

C10_Witness ==
    /\ command = "None"
    /\ pc = "done"
    /\ file.kind = "json"
    /\ NonEmpty(connections)
    /\ output = UsageText

====
